---------------------------- MODULE Spec2Model ----------------------------
(***************************************************************************)
(* Recipe ingredient cost analyzer (src/python.py).                        *)
(*                                                                         *)
(* Two specifications over one set of variables:                           *)
(*   Spec      any sequence of operations on one RecipeCost object         *)
(*             (add_ingredient, the cost queries, the two exports);        *)
(*   DemoSpec  one run of run_recipe_cost_demo, the interactive session.   *)
(*                                                                         *)
(* Numbers.  Quantities and prices are Python floats (float(input(..)),    *)
(* lines 139 and 146).  They are modelled as integers plus the one float   *)
(* that is not ordered, NaN, which float() parses from the text "nan".     *)
(* Rounding and the infinities are not modelled: every value the model     *)
(* computes is an exact small integer, or NaN.  A quotient (line 58) is    *)
(* kept as an exact fraction in lowest terms.                              *)
(*                                                                         *)
(* A dict is a sequence of <<key, value>> pairs with distinct keys, in     *)
(* insertion order (the order dict.items() iterates in).  A set of store   *)
(* names (line 66) iterates in an order the build chooses.                 *)
(***************************************************************************)
EXTENDS Integers, Sequences, FiniteSets, TLC

VARIABLES
    name,           \* RecipeCost.name
    servings,       \* RecipeCost.servings
    ingredients,    \* RecipeCost.ingredients: sequence of ingredient records
    ret,            \* the last call: operation, arguments, what it raised, returned or wrote
    pc,             \* run_recipe_cost_demo: position in the function
    ing_name,       \* run_recipe_cost_demo: local ing_name
    qty,            \* run_recipe_cost_demo: local qty
    price_by_store, \* run_recipe_cost_demo: local price_by_store
    store,          \* run_recipe_cost_demo: local store (line 157)
    total,          \* run_recipe_cost_demo: local total (line 157)
    stdout,         \* what the session printed, in order
    calls,          \* the calls on the recipe and of the helpers, in the order they started
    rounds          \* iterations of the 'Add ingredient?' loop that read an ingredient

vars == <<name, servings, ingredients, ret, pc, ing_name,
          qty, price_by_store, store, total, stdout, calls, rounds>>

recipeVars == <<name, servings, ingredients>>
demoVars == <<pc, ing_name, qty, price_by_store, store, total, stdout, calls, rounds>>

-----------------------------------------------------------------------------
(* Bounds of the model. *)

MaxIngredients == 2     \* add_ingredient is not called on a list this long
MaxRounds == 2          \* ingredients entered in one interactive session

-----------------------------------------------------------------------------
(* Values. *)

\* The float NaN: float("nan").  Every other number of the model is an
\* integer far from it, so this value stands apart from all of them.
NaN == -1000

\* Python's None, where a store name is expected (lines 63, 102, 104).
None == "<None>"

\* What callers pass.  NaN is passed as a quantity; as a price it goes
\* through line 16 the same way.
RecipeNames == {"Pancakes"}
Servings == {-1, 0, 3}
Names == {"", "flour"}
Quantities == {0, 2, NaN}
PriceEntries == {<<"A", 0>>, <<"A", 1>>, <<"B", 0>>, <<"B", 2>>}
Stores == {e[1] : e \in PriceEntries}

\* float comparison and arithmetic: NaN is unordered and absorbing.
Lt(a, b) == a # NaN /\ b # NaN /\ a < b
Le(a, b) == a # NaN /\ b # NaN /\ a <= b
Mul(a, b) == IF a = NaN \/ b = NaN THEN NaN ELSE a * b
Add(a, b) == IF a = NaN \/ b = NaN THEN NaN ELSE a + b

\* str(x) of a float, as csv.DictWriter writes a cell (line 89) and print shows it.
Format(v) == IF v = NaN THEN "nan" ELSE ToString(v) \o ".0"

\* float(text), lines 139 and 146, and a reader of the csv file: <<x>> for the
\* float x, <<>> for ValueError.  The decimal texts are those of 0 .. 99.
Decimals == 0 .. 99
FloatTexts == [v \in Decimals |-> {Format(v), ToString(v)}]
float(text) ==
    IF text = "nan" THEN <<NaN>>
    ELSE LET hits == {v \in Decimals : text \in FloatTexts[v]}
         IN  IF hits = {} THEN <<>> ELSE <<CHOOSE v \in hits : TRUE>>

\* int(text), line 129: <<n>>, or <<>> for ValueError.
IntTexts == [v \in (0 - 99) .. 99 |-> ToString(v)]
int(text) ==
    LET hits == {v \in DOMAIN IntTexts : IntTexts[v] = text}
    IN  IF hits = {} THEN <<>> ELSE <<CHOOSE v \in hits : TRUE>>

\* dict: keys in insertion order, membership, lookup (dict.get returns None
\* for an absent key: here the empty sequence, else <<value>>).
Keys(d) == {d[i][1] : i \in DOMAIN d}
IsDict(d) == \A i, j \in DOMAIN d : d[i][1] = d[j][1] => i = j
Get(d, k) ==
    IF k \in Keys(d)
    THEN <<d[CHOOSE i \in DOMAIN d : d[i][1] = k][2]>>
    ELSE <<>>

\* d[k] = v: an existing key keeps its position, a new one goes last.
SetItem(d, k, v) ==
    IF k \in Keys(d)
    THEN [i \in DOMAIN d |-> IF d[i][1] = k THEN <<k, v>> ELSE d[i]]
    ELSE Append(d, <<k, v>>)

\* The dicts a caller may pass as price_by_store.
PriceMaps ==
    {d \in UNION {[1 .. n -> PriceEntries] : n \in 0 .. Cardinality(Stores)} :
        IsDict(d)}

-----------------------------------------------------------------------------
(* validate_ingredient_input, lines 7-19: the message of the ValueError    *)
(* the wrapper raises, or "" when it goes on to call the wrapped function. *)

\* lines 15-17: the first store, in items() order, whose price is <= 0.
RECURSIVE FirstBadPrice(_, _)
FirstBadPrice(p, i) ==
    IF i > Len(p) THEN 0
    ELSE IF Le(p[i][2], 0) THEN i
    ELSE FirstBadPrice(p, i + 1)

\* Mutant: only the first price of the map is checked.
validate_FirstPriceOnly(n, quantity, p) ==
    IF n = "" THEN "Ingredient name cannot be empty"
    ELSE IF Le(quantity, 0) THEN "Quantity must be positive"
    ELSE IF p = <<>> THEN "price_by_store must be a non-empty dictionary"
    ELSE IF Le(p[1][2], 0)
         THEN "Price for store '" \o p[1][1] \o "' must be positive"
    ELSE ""

\* (Every p passed is a dict, so isinstance on line 13 holds.)
validate_ingredient_input(n, quantity, p) ==
    IF n = "" THEN "Ingredient name cannot be empty"
    ELSE IF Le(quantity, 0) THEN "Quantity must be positive"
    ELSE IF p = <<>> THEN "price_by_store must be a non-empty dictionary"
    ELSE IF FirstBadPrice(p, 1) # 0
         THEN "Price for store '" \o p[FirstBadPrice(p, 1)][1] \o "' must be positive"
    ELSE ""

-----------------------------------------------------------------------------
(* class RecipeCost, lines 23-73. *)

\* lines 30-36: the undecorated add_ingredient; the new value of self.ingredients.
\* Mutant: the new ingredient goes to the front of the list.
add_ingredient_AtFront(ings, n, quantity, p) ==
    <<[name |-> n, quantity |-> quantity, price_by_store |-> p]>> \o ings

add_ingredient(ings, n, quantity, p) ==
    Append(ings, [name |-> n, quantity |-> quantity, price_by_store |-> p])

\* lines 39-44: <<>> is None, <<c>> the cost c.
ingredient_cost_for_store(ingredient, store_name) ==
    LET price == Get(ingredient.price_by_store, store_name)
    IN  IF price = <<>> THEN <<>>
        ELSE <<Mul(ingredient.quantity, price[1])>>

\* lines 47-51: the list costs, built over self.ingredients from index i on.
RECURSIVE CostsFrom(_, _, _)
CostsFrom(ings, store_name, i) ==
    IF i > Len(ings) THEN <<>>
    ELSE LET c == ingredient_cost_for_store(ings[i], store_name)
         IN  (IF c # <<>> THEN <<c[1]>> ELSE <<>>) \o CostsFrom(ings, store_name, i + 1)

\* sum(costs): 0 + costs[0] + costs[1] + ..., left to right.
RECURSIVE SumFrom(_, _, _)
SumFrom(acc, costs, i) ==
    IF i > Len(costs) THEN acc ELSE SumFrom(Add(acc, costs[i]), costs, i + 1)

\* Mutant: the loop ends at the first ingredient not priced at the store.
RECURSIVE CostsUntilAbsent(_, _, _)
CostsUntilAbsent(ings, store_name, i) ==
    IF i > Len(ings) THEN <<>>
    ELSE LET c == ingredient_cost_for_store(ings[i], store_name)
         IN  IF c = <<>> THEN <<>>
             ELSE <<c[1]>> \o CostsUntilAbsent(ings, store_name, i + 1)
total_cost_StopAtAbsent(ings, store_name) ==
    SumFrom(0, CostsUntilAbsent(ings, store_name, 1), 1)

\* lines 46-52.
total_cost_at_store(ings, store_name) ==
    SumFrom(0, CostsFrom(ings, store_name, 1), 1)

RECURSIVE Gcd(_, _)
Gcd(a, b) == IF b = 0 THEN a ELSE Gcd(b, a % b)
Abs(a) == IF a < 0 THEN -a ELSE a

\* a / b on floats (line 58): ZeroDivisionError when b is 0, else the
\* quotient, as <<numerator, denominator>> in lowest terms, denominator > 0.
TrueDiv(a, b) ==
    IF b = 0 THEN [exc |-> "ZeroDivisionError", val |-> <<>>]
    ELSE IF a = NaN THEN [exc |-> "", val |-> <<NaN, 1>>]
    ELSE LET g == Gcd(Abs(a), Abs(b))
             sgn == IF b < 0 THEN -1 ELSE 1
         IN  [exc |-> "", val |-> <<sgn * (a \div g), sgn * (b \div g)>>]

\* Mutant: no guard on servings == 0.
per_serving_cost_NoGuard(ings, n_servings, store_name) ==
    TrueDiv(total_cost_at_store(ings, store_name), n_servings)

\* lines 54-58.
per_serving_cost(ings, n_servings, store_name) ==
    LET t == total_cost_at_store(ings, store_name)
    IN  IF n_servings = 0 THEN [exc |-> "", val |-> <<0, 1>>]
        ELSE TrueDiv(t, n_servings)

\* line 66: the set of all store names.
all_stores(ings) == UNION {Keys(ings[i].price_by_store) : i \in DOMAIN ings}

\* The orders a set may iterate in (line 68).
Orders(S) ==
    {o \in [1 .. Cardinality(S) -> S] : \A i, j \in DOMAIN o : o[i] = o[j] => i = j}

\* lines 67-70: store_costs, for the iteration order given.
store_costs(ings, order) ==
    [i \in DOMAIN order |-> <<order[i], total_cost_at_store(ings, order[i])>>]

\* line 72: min(store_costs, key=lambda x: x[1]): the first element that no
\* later one is less than (a later element replaces the best only when its
\* key is < the best's).
RECURSIVE MinByCost(_, _, _)
MinByCost(pairs, i, best) ==
    IF i > Len(pairs) THEN best
    ELSE MinByCost(pairs, i + 1, IF Lt(pairs[i][2], best[2]) THEN pairs[i] ELSE best)

\* lines 61-73, for the order the set all_stores iterates in.
cheapest_store(ings, order) ==
    IF ings = <<>> THEN <<None, 0>>
    ELSE LET sc == store_costs(ings, order) IN MinByCost(sc, 2, sc[1])

-----------------------------------------------------------------------------
(* Helper functions, lines 77-107. *)

fieldnames == <<"ingredient", "quantity", "store", "price_per_unit", "cost">>

\* lines 87-95: the rows of one ingredient, from item i of its price map on.
RECURSIVE RowsOfIngredient(_, _)
RowsOfIngredient(ing, i) ==
    IF i > Len(ing.price_by_store) THEN <<>>
    ELSE LET st == ing.price_by_store[i][1]
             price == ing.price_by_store[i][2]
             cost == Mul(ing.quantity, price)
         IN  <<[ingredient |-> ing.name,
                quantity |-> Format(ing.quantity),
                store |-> st,
                price_per_unit |-> Format(price),
                cost |-> Format(cost)]>> \o RowsOfIngredient(ing, i + 1)

\* lines 84-95: the rows written, from ingredient i on.
RECURSIVE RowsFrom(_, _)
RowsFrom(ings, i) ==
    IF i > Len(ings) THEN <<>>
    ELSE RowsOfIngredient(ings[i], 1) \o RowsFrom(ings, i + 1)

\* Mutant: the cost column repeats the unit price.
save_to_csv_PriceAsCost(ings) ==
    [header |-> fieldnames,
     rows |-> [r \in DOMAIN RowsFrom(ings, 1) |->
                  [RowsFrom(ings, 1)[r] EXCEPT !.cost = RowsFrom(ings, 1)[r].price_per_unit]]]

\* lines 77-95: the file written.
save_to_csv(ings) == [header |-> fieldnames, rows |-> RowsFrom(ings, 1)]

\* lines 97-107: the object dumped, for the order all_stores iterates in.
\* per_serving_cost raising would leave the file unwritten: exc says so.
save_summary_to_json(recipe_name, n_servings, ings, order) ==
    LET cheapest == cheapest_store(ings, order)
        per == per_serving_cost(ings, n_servings, cheapest[1])
    IN  [exc |-> per.exc,
         val |-> [recipe_name |-> recipe_name,
                  servings |-> n_servings,
                  cheapest_store |-> cheapest[1],
                  cheapest_total_cost |-> cheapest[2],
                  per_serving_cost_at_cheapest_store |-> per.val]]


-----------------------------------------------------------------------------
(* The record of the last call: its operation and arguments, the exception *)
(* it raised ("" for none) with its message, and what it returned or wrote.  The fields an  *)
(* operation does not use keep the values below.                           *)

NoCall ==
    [op |-> "", a_name |-> "", a_quantity |-> 0, a_prices |-> <<>>,
     a_store |-> "", a_index |-> 0, a_order |-> <<>>,
     exc |-> "", msg |-> "", r_store |-> "", val |-> <<>>, rows |-> <<>>]

StoreArgs == Stores \cup {None}

-----------------------------------------------------------------------------
(* The calls, as steps: what each does to the recipe and what it leaves in *)
(* ret.  Spec and DemoSpec both take them.                                 *)

\* lines 8-18 and 30-36: recipe.add_ingredient(n, quantity, p).
CallAddIngredient(n, quantity, p) ==
    LET err == validate_ingredient_input(n, quantity, p)
    IN  /\ ingredients' =
               IF err = "" THEN add_ingredient(ingredients, n, quantity, p)
               ELSE ingredients
        /\ ret' = [NoCall EXCEPT !.op = "add_ingredient", !.a_name = n,
                      !.a_quantity = quantity, !.a_prices = p,
                      !.exc = IF err = "" THEN "" ELSE "ValueError",
                      !.msg = err]

\* lines 54-58: recipe.per_serving_cost(s).
CallPerServingCost(s) ==
    LET r == per_serving_cost(ingredients, servings, s)
    IN  ret' = [NoCall EXCEPT !.op = "per_serving_cost", !.a_store = s,
                   !.exc = r.exc, !.val = r.val]

\* lines 61-73: recipe.cheapest_store(), the set iterating in the order given.
CallCheapestStore(order) ==
    LET r == cheapest_store(ingredients, order)
    IN  ret' = [NoCall EXCEPT !.op = "cheapest_store", !.a_order = order,
                   !.r_store = r[1], !.val = <<r[2]>>]

\* lines 77-95: save_to_csv(recipe).
CallSaveToCsv ==
    ret' = [NoCall EXCEPT !.op = "save_to_csv",
               !.rows = save_to_csv(ingredients).rows]

\* lines 97-107: save_summary_to_json(recipe).
CallSaveSummaryToJson(order) ==
    LET r == save_summary_to_json(name, servings, ingredients, order)
    IN  ret' = [NoCall EXCEPT !.op = "save_summary_to_json", !.a_order = order,
                   !.exc = r.exc,
                   !.r_store = r.val.cheapest_store,
                   !.val = <<r.val.cheapest_total_cost>>
                              \o r.val.per_serving_cost_at_cheapest_store]

-----------------------------------------------------------------------------
(* Spec: operations on one RecipeCost, in any order. *)

\* lines 24-27: RecipeCost(name, servings).
Init ==
    /\ name \in RecipeNames
    /\ servings \in Servings
    /\ ingredients = <<>>
    /\ ret = [NoCall EXCEPT !.op = "__init__"]
    /\ pc = "api"
    /\ ing_name = ""
    /\ qty = 0
    /\ price_by_store = <<>>
    /\ store = None
    /\ total = 0
    /\ stdout = <<>>
    /\ calls = <<>>
    /\ rounds = 0

AddIngredient ==
    /\ pc = "api"
    /\ Len(ingredients) < MaxIngredients
    /\ \E n \in Names, quantity \in Quantities, p \in PriceMaps :
        CallAddIngredient(n, quantity, p)
    /\ UNCHANGED <<name, servings, demoVars>>

\* lines 39-44: recipe.ingredient_cost_for_store(recipe.ingredients[i], s).
IngredientCostForStore ==
    /\ pc = "api"
    /\ \E i \in DOMAIN ingredients, s \in StoreArgs :
        ret' = [NoCall EXCEPT !.op = "ingredient_cost_for_store", !.a_index = i,
                   !.a_store = s,
                   !.val = ingredient_cost_for_store(ingredients[i], s)]
    /\ UNCHANGED <<recipeVars, demoVars>>

\* lines 46-52: recipe.total_cost_at_store(s).
TotalCostAtStore ==
    /\ pc = "api"
    /\ \E s \in StoreArgs :
        ret' = [NoCall EXCEPT !.op = "total_cost_at_store", !.a_store = s,
                   !.val = <<total_cost_at_store(ingredients, s)>>]
    /\ UNCHANGED <<recipeVars, demoVars>>

PerServingCost ==
    /\ pc = "api"
    /\ \E s \in StoreArgs : CallPerServingCost(s)
    /\ UNCHANGED <<recipeVars, demoVars>>

CheapestStore ==
    /\ pc = "api"
    /\ \E order \in Orders(all_stores(ingredients)) : CallCheapestStore(order)
    /\ UNCHANGED <<recipeVars, demoVars>>

SaveToCsv ==
    /\ pc = "api"
    /\ CallSaveToCsv
    /\ UNCHANGED <<recipeVars, demoVars>>

SaveSummaryToJson ==
    /\ pc = "api"
    /\ \E order \in Orders(all_stores(ingredients)) : CallSaveSummaryToJson(order)
    /\ UNCHANGED <<recipeVars, demoVars>>

Next ==
    \/ AddIngredient
    \/ IngredientCostForStore
    \/ TotalCostAtStore
    \/ PerServingCost
    \/ CheapestStore
    \/ SaveToCsv
    \/ SaveSummaryToJson

Spec == Init /\ [][Next]_vars

-----------------------------------------------------------------------------
(* DemoSpec: one run of run_recipe_cost_demo, lines 126-173.               *)
(*                                                                         *)
(* What the user types is drawn from the sets below.  The line that ends   *)
(* the store loop (any text whose lower() is "done", line 144) is the end  *)
(* of the sequence of store lines.  stdout keeps the fixed text of each    *)
(* print; calls keeps each call on the recipe and of a helper function,    *)
(* with the function it is made from, in the order the calls start (calls  *)
(* a RecipeCost method makes on self are part of that call).               *)

\* str.strip() and str.lower(), on the texts typed.
strip(text) ==
    CASE text = " Y " -> "Y"
      [] text = " B " -> "B"
      [] OTHER -> text
lower(text) ==
    CASE text = "Y" -> "y"
      [] OTHER -> text

ServingsTyped == {ToString(n) : n \in Servings} \cup {"x"}
AddMoreTyped == {"y", " Y ", "n", ""}
QuantityTyped == {"0", "2", "nan", "x"}
StoreLinesTyped == {<<"A", "0">>, <<"A", "1">>, <<" B ", "2">>, <<" B ", "x">>}
StoreLineSeqs ==
    UNION {[1 .. n -> StoreLinesTyped] : n \in 0 .. Cardinality(Stores)}

Call(fn, by) == [fn |-> fn, by |-> by]
Demo == "run_recipe_cost_demo"

\* The state before line 127: no recipe yet.
DemoInit ==
    /\ name = ""
    /\ servings = 0
    /\ ingredients = <<>>
    /\ ret = NoCall
    /\ pc = "start"
    /\ ing_name = ""
    /\ qty = 0
    /\ price_by_store = <<>>
    /\ store = None
    /\ total = 0
    /\ stdout = <<>>
    /\ calls = <<>>
    /\ rounds = 0

\* lines 127-131: the banner, the two prompts, RecipeCost(name, servings).
\* int() raising ValueError ends the run.
Start ==
    /\ pc = "start"
    /\ \E nm \in RecipeNames, typed \in ServingsTyped :
        LET n == int(typed)
        IN  IF n = <<>>
            THEN /\ pc' = "raised"
                 /\ ret' = [NoCall EXCEPT !.op = "int", !.exc = "ValueError"]
                 /\ UNCHANGED <<name, servings>>
            ELSE /\ pc' = "ask_add"
                 /\ ret' = [NoCall EXCEPT !.op = "__init__"]
                 /\ name' = nm
                 /\ servings' = n[1]
    /\ stdout' = Append(stdout, "=== Recipe Ingredient Cost Analyzer ===")
    /\ UNCHANGED <<ingredients, ing_name, qty, price_by_store, store, total, calls, rounds>>

\* lines 134-136: 'Add ingredient? (y/n): '.
AskAdd ==
    /\ pc = "ask_add"
    /\ \E typed \in AddMoreTyped :
        LET add_more == lower(strip(typed))
        IN  IF add_more # "y" THEN pc' = "results"
            ELSE rounds < MaxRounds /\ pc' = "read_ingredient"
    /\ UNCHANGED <<recipeVars, ret, ing_name, qty, price_by_store, store, total,
                   stdout, calls, rounds>>

\* lines 142-147: the store loop over the lines typed, from line i on, d being
\* price_by_store so far; float() raising ValueError ends it.
RECURSIVE ReadStores(_, _, _)
ReadStores(d, lines, i) ==
    IF i > Len(lines) THEN [exc |-> "", d |-> d]
    ELSE LET store_name == strip(lines[i][1])
             price == float(lines[i][2])
         IN  IF price = <<>> THEN [exc |-> "ValueError", d |-> d]
             ELSE ReadStores(SetItem(d, store_name, price[1]), lines, i + 1)

\* lines 138-147: the ingredient's name, quantity and prices are read.
ReadIngredient ==
    /\ pc = "read_ingredient"
    /\ \E nm \in Names, typed \in QuantityTyped, lines \in StoreLineSeqs :
        LET q == float(typed)
            r == ReadStores(<<>>, lines, 1)
        IN  /\ ing_name' = nm
            /\ IF q = <<>>
               THEN /\ pc' = "raised"
                    /\ ret' = [NoCall EXCEPT !.op = "float", !.exc = "ValueError"]
                    /\ UNCHANGED <<qty, price_by_store>>
               ELSE /\ qty' = q[1]
                    /\ price_by_store' = r.d
                    /\ IF r.exc # ""
                       THEN /\ pc' = "raised"
                            /\ ret' = [NoCall EXCEPT !.op = "float", !.exc = "ValueError"]
                       ELSE /\ pc' = "call_add"
                            /\ ret' = ret
    /\ rounds' = rounds + 1
    /\ UNCHANGED <<recipeVars, store, total, stdout, calls>>

\* Mutant: the error ends the loop (break for continue).
AddEntered_BreakOnError ==
    /\ pc = "call_add"
    /\ CallAddIngredient(ing_name, qty, price_by_store)
    /\ calls' = Append(calls, Call("add_ingredient", Demo))
    /\ IF ret'.exc = "" THEN stdout' = stdout /\ pc' = "ask_add"
       ELSE stdout' = Append(stdout, "Error: " \o ret'.msg) /\ pc' = "results"
    /\ UNCHANGED <<name, servings, ing_name, qty, price_by_store, store, total, rounds>>

\* lines 149-153: add_ingredient in the try block; a ValueError is printed and
\* the loop goes on.
AddEntered ==
    /\ pc = "call_add"
    /\ CallAddIngredient(ing_name, qty, price_by_store)
    /\ calls' = Append(calls, Call("add_ingredient", Demo))
    /\ stdout' = IF ret'.exc = "" THEN stdout
                 ELSE Append(stdout, "Error: " \o ret'.msg)
    /\ pc' = "ask_add"
    /\ UNCHANGED <<name, servings, ing_name, qty, price_by_store, store, total, rounds>>

\* lines 156 and 172-173: no ingredient was added.
NothingToCalculate ==
    /\ pc = "results"
    /\ ingredients = <<>>
    /\ stdout' = Append(stdout, "No ingredients added, nothing to calculate.")
    /\ pc' = "done"
    /\ UNCHANGED <<recipeVars, ret, ing_name, qty, price_by_store, store, total,
                   calls, rounds>>

\* lines 156-157: store, total = recipe.cheapest_store().
FindCheapest ==
    /\ pc = "results"
    /\ ingredients # <<>>
    /\ \E order \in Orders(all_stores(ingredients)) : CallCheapestStore(order)
    /\ store' = ret'.r_store
    /\ total' = ret'.val[1]
    /\ calls' = Append(calls, Call("cheapest_store", Demo))
    /\ pc' = "print_results"
    /\ UNCHANGED <<recipeVars, ing_name, qty, price_by_store, stdout, rounds>>

ResultLines ==
    <<"=== RESULTS ===", "Recipe name:", "Servings:", "Cheapest store:",
      "Total cost at cheapest store:", "Cost per serving at cheapest store:">>

\* Mutant: the csv file is written before the per-serving cost is computed.
PrintResults_AfterCsv ==
    /\ pc = "print_results"
    /\ CallPerServingCost(store)
    /\ calls' = calls \o <<Call("save_to_csv", Demo), Call("per_serving_cost", Demo)>>
    /\ stdout' = stdout \o ResultLines
    /\ pc' = "save_json"
    /\ UNCHANGED <<recipeVars, ing_name, qty, price_by_store, store, total, rounds>>

\* lines 158-163: the results are printed; recipe.per_serving_cost(store) is
\* computed for the last line, and an error it raised would end the run before
\* that line is printed.
PrintResults ==
    /\ pc = "print_results"
    /\ CallPerServingCost(store)
    /\ calls' = Append(calls, Call("per_serving_cost", Demo))
    /\ IF ret'.exc = ""
       THEN stdout' = stdout \o ResultLines /\ pc' = "save_csv"
       ELSE stdout' = stdout \o SubSeq(ResultLines, 1, 5) /\ pc' = "raised"
    /\ UNCHANGED <<recipeVars, ing_name, qty, price_by_store, store, total, rounds>>

\* line 165: save_to_csv(recipe).
DemoSaveToCsv ==
    /\ pc = "save_csv"
    /\ CallSaveToCsv
    /\ calls' = Append(calls, Call("save_to_csv", Demo))
    /\ pc' = "save_json"
    /\ UNCHANGED <<recipeVars, ing_name, qty, price_by_store, store, total, stdout,
                   rounds>>

\* lines 166-167: save_summary_to_json(recipe), which calls cheapest_store and
\* per_serving_cost (lines 98 and 104), and the line that says so.
DemoSaveSummaryToJson ==
    /\ pc = "save_json"
    /\ \E order \in Orders(all_stores(ingredients)) : CallSaveSummaryToJson(order)
    /\ calls' = calls \o <<Call("save_summary_to_json", Demo),
                           Call("cheapest_store", "save_summary_to_json"),
                           Call("per_serving_cost", "save_summary_to_json")>>
    /\ IF ret'.exc = ""
       THEN /\ stdout' = Append(stdout,
                             "Data saved to recipe_costs.csv and recipe_summary.json")
            /\ pc' = "plot"
       ELSE stdout' = stdout /\ pc' = "raised"
    /\ UNCHANGED <<recipeVars, ing_name, qty, price_by_store, store, total, rounds>>

\* lines 109-116: the costs plotted, None as 0.
plot_ingredient_costs(ings, store_name) ==
    [i \in DOMAIN ings |->
        LET c == ingredient_cost_for_store(ings[i], store_name)
        IN  IF c = <<>> THEN 0 ELSE c[1]]

\* line 170: plot_ingredient_costs(recipe, store), one call of
\* ingredient_cost_for_store for each ingredient (line 113).
Plot ==
    /\ pc = "plot"
    /\ ret' = [NoCall EXCEPT !.op = "plot_ingredient_costs", !.a_store = store,
                  !.val = plot_ingredient_costs(ingredients, store)]
    /\ calls' = calls \o <<Call("plot_ingredient_costs", Demo)>>
                      \o [i \in DOMAIN ingredients |->
                             Call("ingredient_cost_for_store", "plot_ingredient_costs")]
    /\ pc' = "done"
    /\ UNCHANGED <<recipeVars, ing_name, qty, price_by_store, store, total, stdout,
                   rounds>>

DemoNext ==
    \/ Start
    \/ AskAdd
    \/ ReadIngredient
    \/ AddEntered
    \/ NothingToCalculate
    \/ FindCheapest
    \/ PrintResults
    \/ DemoSaveToCsv
    \/ DemoSaveSummaryToJson
    \/ Plot

DemoSpec == DemoInit /\ [][DemoNext]_vars

-----------------------------------------------------------------------------
(* Properties of Spec. *)

\* x > y on floats.
Gt(a, b) == a # NaN /\ b # NaN /\ a > b

IsPrefix(s, t) == Len(s) <= Len(t) /\ \A i \in DOMAIN s : s[i] = t[i]

\* The sum of f over the finite index set I, NaN if any term is NaN.
RECURSIVE SumOver(_, _)
SumOver(I, f) ==
    IF I = {} THEN 0
    ELSE LET i == CHOOSE j \in I : TRUE IN Add(f[i], SumOver(I \ {i}, f))

\* The price an ingredient lists for store S.
PriceAt(ing, S) ==
    ing.price_by_store[CHOOSE j \in DOMAIN ing.price_by_store :
                           ing.price_by_store[j][1] = S][2]

\* The ingredients priced at store S, and what they cost there in all.
PricedAt(ings, S) == {i \in DOMAIN ings : S \in Keys(ings[i].price_by_store)}
SumPricedAt(ings, S) ==
    SumOver(PricedAt(ings, S),
            [i \in PricedAt(ings, S) |-> Mul(ings[i].quantity, PriceAt(ings[i], S))])

\* C1's rejection condition, read on floats (NaN <= 0 is false).
Rejectable(n, quantity, p) ==
    \/ n = ""
    \/ (quantity # NaN /\ quantity <= 0)
    \/ p = <<>>
    \/ \E j \in DOMAIN p : p[j][2] # NaN /\ p[j][2] <= 0

\* C1: a call add_ingredient(name, quantity, price_by_store) with an empty name,
\* a quantity <= 0, an empty price map or a price <= 0 fails with the validation
\* error and leaves the ingredient list as it was; any other call succeeds and
\* the list grows by exactly one entry.
C1_AddIngredientAllOrNothing ==
    [][ret'.op = "add_ingredient" =>
          IF Rejectable(ret'.a_name, ret'.a_quantity, ret'.a_prices)
          THEN ret'.exc = "ValueError" /\ ingredients' = ingredients
          ELSE /\ ret'.exc = ""
               /\ Len(ingredients') = Len(ingredients) + 1
               /\ IsPrefix(ingredients, ingredients')]_vars

\* C1's case: a call rejected for its second price, on a recipe that holds an
\* ingredient already.
C1_Witness ==
    /\ ret.op = "add_ingredient"
    /\ ret.exc = "ValueError"
    /\ Len(ingredients) = 1
    /\ ret.a_name # ""
    /\ ret.a_quantity = 2
    /\ Len(ret.a_prices) = 2
    /\ ret.a_prices[1][2] > 0
    /\ ret.a_prices[2][2] = 0

\* C2: every ingredient stored has quantity > 0, a non-empty price map and
\* every price in it > 0.
C2_StoredIngredientsValid ==
    \A i \in DOMAIN ingredients :
        /\ Gt(ingredients[i].quantity, 0)
        /\ ingredients[i].price_by_store # <<>>
        /\ \A j \in DOMAIN ingredients[i].price_by_store :
               Gt(ingredients[i].price_by_store[j][2], 0)

\* What does hold of the stored ingredients: a non-empty name, a quantity that
\* is not <= 0 (NaN is not), a non-empty price map, no price <= 0.
StoredIngredientsNotRejectable ==
    \A i \in DOMAIN ingredients :
        ~Rejectable(ingredients[i].name, ingredients[i].quantity,
                    ingredients[i].price_by_store)

\* No ingredient stored has the quantity NaN.
NaNFree == \A i \in DOMAIN ingredients : ingredients[i].quantity # NaN

\* C3: total_cost_at_store(S) is the sum of quantity * price[S] over exactly the
\* ingredients whose price map contains S; it is 0 when the list is empty or no
\* ingredient is priced at S.
C3_TotalCostAtStore ==
    ret.op = "total_cost_at_store" =>
        /\ ret.val = <<SumPricedAt(ingredients, ret.a_store)>>
        /\ PricedAt(ingredients, ret.a_store) = {} => ret.val = <<0>>

\* C3's case: a total over two ingredients, one of them not priced at the store.
C3_Witness ==
    /\ ret.op = "total_cost_at_store"
    /\ Len(ingredients) = 2
    /\ Cardinality(PricedAt(ingredients, ret.a_store)) = 1
    /\ ret.val[1] > 0

\* What C4 says of a result <<S, c>> of cheapest_store().
IsCheapest(ings, S, c) ==
    IF ings = <<>> THEN S = None /\ c = 0
    ELSE /\ S \in all_stores(ings)
         /\ c = total_cost_at_store(ings, S)
         /\ \A T \in all_stores(ings) : Le(c, total_cost_at_store(ings, T))

\* C4: cheapest_store() returns (None, 0) on an empty recipe; otherwise a pair
\* (S, c) with S among the stores of the ingredients' price maps,
\* c = total_cost_at_store(S), and c <= total_cost_at_store(T) for every such T.
C4_CheapestStoreIsMinimum ==
    ret.op = "cheapest_store" => IsCheapest(ingredients, ret.r_store, ret.val[1])

\* C4 holds of the recipes that hold no NaN.
CheapestStoreIsMinimumWithoutNaN ==
    (ret.op = "cheapest_store" /\ NaNFree) =>
        IsCheapest(ingredients, ret.r_store, ret.val[1])

\* C5: per_serving_cost(S), for S a store name or None, never fails with a
\* division error; it returns 0 when servings == 0 and
\* total_cost_at_store(S) / servings otherwise.
C5_PerServingCost ==
    ret.op = "per_serving_cost" =>
        LET t == total_cost_at_store(ingredients, ret.a_store)
        IN  /\ ret.exc = ""
            /\ Len(ret.val) = 2
            /\ IF servings = 0 THEN ret.val = <<0, 1>>
               ELSE IF t = NaN THEN ret.val[1] = NaN
               ELSE /\ ret.val[2] > 0
                    /\ ret.val[1] * servings = t * ret.val[2]

\* C5's case: the per-serving cost of a recipe that costs something, for no
\* servings.
C5_Witness ==
    /\ ret.op = "per_serving_cost"
    /\ servings = 0
    /\ total_cost_at_store(ingredients, ret.a_store) > 0

\* The row of ingredient i's j-th price, as C6 places it.
RowIndex(ings, i, j) ==
    SumOver(1 .. (i - 1), [k \in 1 .. (i - 1) |-> Len(ings[k].price_by_store)]) + j

\* The rows whose store is S.
RowsAt(rows, S) == {r \in DOMAIN rows : rows[r].store = S}

\* C6: save_to_csv writes exactly one row per (ingredient, store) pair of the
\* ingredient's price map, in ingredient insertion order (and in the map's order
\* within an ingredient), each with cost = quantity * price_per_unit; so for
\* every store S the cost column summed over the rows of S is
\* total_cost_at_store(S).
C6_CsvRows ==
    ret.op = "save_to_csv" =>
        /\ Len(ret.rows) =
               SumOver(DOMAIN ingredients,
                       [i \in DOMAIN ingredients |-> Len(ingredients[i].price_by_store)])
        /\ \A i \in DOMAIN ingredients :
             \A j \in DOMAIN ingredients[i].price_by_store :
               LET r == ret.rows[RowIndex(ingredients, i, j)]
               IN  /\ r.ingredient = ingredients[i].name
                   /\ r.store = ingredients[i].price_by_store[j][1]
                   /\ float(r.quantity) = <<ingredients[i].quantity>>
                   /\ float(r.price_per_unit) = <<ingredients[i].price_by_store[j][2]>>
                   /\ float(r.cost) =
                          <<Mul(ingredients[i].quantity,
                                ingredients[i].price_by_store[j][2])>>
        /\ \A S \in Stores :
               SumOver(RowsAt(ret.rows, S),
                       [r \in RowsAt(ret.rows, S) |-> float(ret.rows[r].cost)[1]])
                   = total_cost_at_store(ingredients, S)

\* C6's case: three rows written for two ingredients, the first priced at two
\* stores with B listed before A.
C6_Witness ==
    /\ ret.op = "save_to_csv"
    /\ Len(ingredients) = 2
    /\ Len(ret.rows) = 3
    /\ ret.rows[1].store = "B"
    /\ ret.rows[2].store = "A"
    /\ ret.rows[1].cost = "4.0"

\* C9: for a recipe of at least one ingredient and any two iteration orders of
\* the store set, cheapest_store() returns the same total cost; the stores
\* returned differ only when both have that same, minimum, total.
C9_CostIndependentOfOrder ==
    (ret.op = "cheapest_store" /\ ingredients # <<>>) =>
        \A o2 \in Orders(all_stores(ingredients)) :
            LET r2 == cheapest_store(ingredients, o2)
            IN  /\ r2[2] = ret.val[1]
                /\ r2[1] # ret.r_store =>
                       /\ total_cost_at_store(ingredients, r2[1]) = ret.val[1]
                       /\ total_cost_at_store(ingredients, ret.r_store) = ret.val[1]

\* C9 holds of the recipes that hold no NaN.
CostIndependentOfOrderWithoutNaN == NaNFree => C9_CostIndependentOfOrder

Queries ==
    {"ingredient_cost_for_store", "total_cost_at_store", "per_serving_cost",
     "cheapest_store", "save_to_csv", "save_summary_to_json"}

\* C10: the ingredient list is append-only: in every step the list before is a
\* prefix of the list after, only a successful add_ingredient extends it, by one
\* entry at the end, and the queries and exports leave the list, the name and
\* the servings as they were.
C10_AppendOnly ==
    [][/\ IsPrefix(ingredients, ingredients')
       /\ ingredients' # ingredients =>
              /\ ret'.op = "add_ingredient" /\ ret'.exc = ""
              /\ Len(ingredients') = Len(ingredients) + 1
       /\ ret'.op \in Queries => UNCHANGED recipeVars
       /\ name' = name /\ servings' = servings]_vars

\* C10's case: an export of a recipe of two ingredients, the second added after
\* the first.
C10_Witness ==
    /\ ret.op = "save_summary_to_json"
    /\ Len(ingredients) = 2
    /\ ingredients[1] # ingredients[2]

-----------------------------------------------------------------------------
(* Properties of DemoSpec. *)

\* C7: whenever add_ingredient rejects the ingredient entered, the error is
\* caught in the loop (it is printed, and the run does not end), the ingredient
\* is not added, the loop is back at the 'Add ingredient?' prompt (the next
\* ingredient is read anew), and the ingredients accepted stay in the recipe in
\* entry order: an accepted one goes to the end of the list, and no other step
\* changes the list.
C7_RejectionCaughtInLoop ==
    [][/\ pc = "call_add" =>
            /\ ret'.op = "add_ingredient"
            /\ ret'.a_name = ing_name /\ ret'.a_quantity = qty
            /\ ret'.a_prices = price_by_store
            /\ pc' = "ask_add"
            /\ IF ret'.exc # ""
               THEN /\ ingredients' = ingredients
                    /\ Len(stdout') = Len(stdout) + 1
                    /\ stdout'[Len(stdout')] = "Error: " \o ret'.msg
               ELSE /\ ingredients' =
                           Append(ingredients,
                                  [name |-> ing_name, quantity |-> qty,
                                   price_by_store |-> price_by_store])
                    /\ stdout' = stdout
       /\ pc # "call_add" => ingredients' = ingredients
       /\ pc = "read_ingredient" => pc' \in {"call_add", "raised"}]_vars

\* C7's case: an ingredient accepted after another was rejected, the run back
\* at the prompt.
C7_Witness ==
    /\ pc = "ask_add"
    /\ ret.op = "add_ingredient"
    /\ ret.exc = ""
    /\ Len(ingredients) = 1
    /\ Len(stdout) = 2
    /\ stdout[2] = "Error: Quantity must be positive"

CostFunctions ==
    {"total_cost_at_store", "per_serving_cost", "cheapest_store",
     "ingredient_cost_for_store"}
Exports == {"save_to_csv", "save_summary_to_json"}

=============================================================================
